---- MODULE Spec2Model ----
(***************************************************************************)
(* Model of the solar calculator of the climate API                        *)
(* (src/app/sun_calculator.py): the timezone resolver, the per-day         *)
(* sunrise/sunset equation, the seasonal polar predicates and the range    *)
(* driver get_sun_data_for_date_range.                                     *)
(*                                                                         *)
(* Numbers.  A Python float is rendered as a fixed-point integer with six  *)
(* decimals (Scale), so 40.7128 degrees is 40712800.  Every arithmetic     *)
(* step of the code is kept, in the code's order.  A calendar date is its  *)
(* proleptic Gregorian ordinal (datetime.date.toordinal), converted to     *)
(* (year, month, day) the way the datetime library does.  An aware         *)
(* datetime is a record of the day and the minute of its UTC instant and   *)
(* of the zone it is expressed in, which matters only to its formatting.   *)
(* An optional value is a tuple: None is <<>>, a present value x is <<x>>. *)
(***************************************************************************)
EXTENDS Integers, Sequences, FiniteSets, TLC

\* ------------------------------------------------------------------ bounds

\* Longest range (end_date - start_date, in days) a modelled request asks for.
MaxSpan == 2

\* How far end_date may lie before start_date in a modelled request.
MaxBack == 2

\* ------------------------------------------------------- optional values

None == <<>>

Some(x) == <<x>>

\* ---------------------------------------------------------- fixed point

\* One unit of a float: six decimals.
Scale == 1000000

\* Half of the decimals, the limb size of the multiplication.
Limb == 1000

\* The magnitude a quotient saturates at (a float quotient by a cosine
\* that underflows to nearly 0 is finite and huge).
Huge == 2000 * Scale

Abs(a) == IF a < 0 THEN -a ELSE a

Sgn(a) == IF a < 0 THEN -1 ELSE 1

\* x * y of two magnitudes, by limbs (each partial product stays an int).
MulLimbs(xh, xl, yh, yl) ==
    xh * yh + (xh * yl + xl * yh) \div Limb + (xl * yl) \div Scale

\* a * b of two floats.
Mul(a, b) ==
    Sgn(a) * Sgn(b)
      * MulLimbs(Abs(a) \div Limb, Abs(a) % Limb, Abs(b) \div Limb, Abs(b) % Limb)

\* The six decimals of r / y, 0 <= r < y.
DivDigits(r, y) ==
    ((r * Limb) \div y) * Limb + (((r * Limb) % y) * Limb) \div y

\* x / y of two magnitudes, y # 0 and at most two units.
DivAbs(x, y) ==
    IF x \div y >= 2000 THEN Huge ELSE (x \div y) * Scale + DivDigits(x % y, y)

\* x / y of two magnitudes: a divisor beyond two units is first brought
\* down, with the dividend, to at most two units (its low digits are below
\* the precision kept).
DivScaled(x, y, k) == DivAbs(x \div k, y \div k)

\* a / b of two floats.
Div(a, b) ==
    IF b = 0 THEN (IF a >= 0 THEN Huge ELSE -Huge)
    ELSE Sgn(a) * Sgn(b) * DivScaled(Abs(a), Abs(b), Abs(b) \div (2 * Scale) + 1)

\* math.radians: degrees * pi / 180, pi / 180 = 0.017453293.
Radians(x) == Mul(x, 17453) + Mul(x, 293) \div Limb

\* math.degrees: radians * 180 / pi.
Degrees(r) == Mul(r, 57295780)

\* r (1 - r2/6 (1 - r2/20 (1 - r2/42 (1 - r2/72)))), r2 = r * r.
SinPoly(r, r2) ==
    Mul(r, Scale - Mul(r2, Scale - Mul(r2, Scale - Mul(r2, Scale - r2 \div 72)
                                                   \div 42) \div 20) \div 6)

\* 1 - r2/2 (1 - r2/12 (1 - r2/30 (1 - r2/56)))
CosPoly(r2) ==
    Scale - Mul(r2, Scale - Mul(r2, Scale - Mul(r2, Scale - r2 \div 56)
                                           \div 30) \div 12) \div 2

\* sin of an angle in radians within [0, pi/4].
SinT(r) == SinPoly(r, Mul(r, r))

\* cos of an angle in radians within [0, pi/4].
CosT(r) == CosPoly(Mul(r, r))

\* sin of an angle in degrees within [0, 90].
SinQ(z) ==
    IF z <= 45 * Scale THEN SinT(Radians(z)) ELSE CosT(Radians(90 * Scale - z))

\* sin of an angle in degrees within [0, 360).
SinTurn(y) ==
    IF y <= 180 * Scale
    THEN SinQ(IF y <= 90 * Scale THEN y ELSE 180 * Scale - y)
    ELSE -SinQ(IF y <= 270 * Scale THEN y - 180 * Scale ELSE 360 * Scale - y)

\* math.sin(math.radians(x)).
SinDeg(x) == SinTurn(x % (360 * Scale))

\* math.cos(math.radians(x)).
CosDeg(x) == SinTurn((x + 90 * Scale) % (360 * Scale))

\* math.tan(math.radians(x)).
TanDeg(x) == Div(SinDeg(x), CosDeg(x))

\* One step of Newton's iteration for the square root of x.
SqrtStep(x, y) == (y + Div(x, y)) \div 2

RECURSIVE SqrtIter(_, _, _, _)
SqrtIter(x, y, y2, k) ==
    IF k = 0 \/ Abs(y2 - y) <= 1 THEN y2
    ELSE SqrtIter(x, y2, SqrtStep(x, y2), k - 1)

\* The square root of x >= 0.
Sqrt(x) == IF x <= 0 THEN 0 ELSE SqrtIter(x, Scale, SqrtStep(x, Scale), 40)

RECURSIVE AsinIter(_, _, _)
AsinIter(s, th, k) ==
    IF k = 0 THEN th
    ELSE AsinIter(s, th + Div(s - SinT(th), CosT(th)), k - 1)

\* The first guess of the arc sine: s + s^3 / 6.
AsinGuess(s, s2) == s + Mul(s2, s) \div 6

\* math.asin(s) in radians, 0 <= s <= sin(pi/4) (Newton's iteration on sin).
AsinRad(s) == AsinIter(s, AsinGuess(s, Mul(s, s)), 3)

\* math.degrees(math.asin(s)), |s| <= sin(pi/4).
AsinDeg(s) == Sgn(s) * Degrees(AsinRad(Abs(s)))

\* math.degrees(math.acos(c)), c within [-1, 1]: twice the arc sine of the
\* half chord.
AcosDeg(c) ==
    IF c >= 0 THEN 2 * Degrees(AsinRad(Sqrt((Scale - c) \div 2)))
    ELSE 180 * Scale - 2 * Degrees(AsinRad(Sqrt((Scale + c) \div 2)))

\* One step of Newton's iteration for the arc tangent of y, from the angle
\* th with sine s and cosine c.
AtanStep(y, th, s, c) == th - Mul(s - Mul(y, c), c)

RECURSIVE AtanIter(_, _, _)
AtanIter(y, th, k) ==
    IF k = 0 THEN th
    ELSE AtanIter(y, AtanStep(y, th, SinT(th), CosT(th)), k - 1)

\* The first guess of the arc tangent: y / (1 + 0.28 y^2).
AtanGuess(y, y2) == Div(y, Scale + Mul(280000, y2))

\* math.atan(y) in radians, 0 <= y <= 1 (Newton's iteration on tan).
AtanUnit(y) == AtanIter(y, AtanGuess(y, Mul(y, y)), 2)

\* math.degrees(math.atan(y)).
AtanDeg(y) ==
    IF Abs(y) <= Scale THEN Sgn(y) * Degrees(AtanUnit(Abs(y)))
    ELSE Sgn(y) * (90 * Scale - Degrees(AtanUnit(Div(Scale, Abs(y)))))

\* ------------------------------------------------------------ calendar

\* datetime.date.max.toordinal(): 9999-12-31, the last representable date.
MaxOrdinal == 3652059

\* datetime.date.min.toordinal(): 0001-01-01.
MinOrdinal == 1

IsLeap(y) == y % 4 = 0 /\ (y % 100 # 0 \/ y % 400 = 0)

DaysBeforeYear(y) ==
    LET p == y - 1
    IN  p * 365 + p \div 4 - p \div 100 + p \div 400

DaysInMonth(y, m) ==
    IF m = 2 THEN (IF IsLeap(y) THEN 29 ELSE 28)
    ELSE IF m \in {4, 6, 9, 11} THEN 30 ELSE 31

DaysBeforeMonth(y, m) ==
    <<0, 31, 59, 90, 120, 151, 181, 212, 243, 273, 304, 334>>[m]
      + (IF m > 2 /\ IsLeap(y) THEN 1 ELSE 0)

\* datetime.date(y, m, d).toordinal()
ToOrdinal(y, m, d) == DaysBeforeYear(y) + DaysBeforeMonth(y, m) + d

\* date.year of the date with ordinal o (the library's _ord2ymd).
YearOf(o) ==
    LET n0 == o - 1
        n400 == n0 \div 146097
        r400 == n0 % 146097
        n100 == r400 \div 36524
        r100 == r400 % 36524
        n4 == r100 \div 1461
        r4 == r100 % 1461
        n1 == r4 \div 365
        y == n400 * 400 + 1 + n100 * 100 + n4 * 4 + n1
    IN  IF n1 = 4 \/ n100 = 4 THEN y - 1 ELSE y

\* date.month
MonthOf(o) ==
    LET y == YearOf(o)
        doy == o - DaysBeforeYear(y)
    IN  CHOOSE m \in 1..12 :
            /\ DaysBeforeMonth(y, m) < doy
            /\ doy <= DaysBeforeMonth(y, m) + DaysInMonth(y, m)

\* date.day
DayOf(o) ==
    LET y == YearOf(o)
    IN  o - DaysBeforeYear(y) - DaysBeforeMonth(y, MonthOf(o))

\* date.isoformat(): the (year, month, day) the string spells.
IsoDate(o) == <<YearOf(o), MonthOf(o), DayOf(o)>>

\* The calendar date the clock shows (datetime.date.today()).
Today == ToOrdinal(2024, 6, 21)

\* ------------------------------------------------------------ timezones

\* The places requests are made for, as <<latitude, longitude>>.
Bogota == <<4711000, -74072100>>

Tokyo == <<35676200, 139650300>>

GulfOfGuinea == <<0, 0>>

Tiksi == <<71636600, 128868500>>

Taymyr == <<75000000, 100000000>>

ArcticOcean == <<89000000, 0>>

Syowa == <<-69000000, 39580000>>

\* On the southern polar circle, where at the December solstice the Sun
\* grazes the horizon and both hour-angle cosines are within a few millionths
\* of -1.  The floats of the code put the two events in one minute of the
\* clock at latitude -65.72817177355536; the six decimals kept here put them
\* there at latitudes -65.728339 to -65.728222.
KempLand == <<-65728300, 86312000>>

\* A tenth of a thousandth of a degree further south: at the December
\* solstice the hour-angle cosine of the sunrise is below -1 and that of
\* the sunset is not (-1.0000106 and -0.9999993 in the floats of the code).
MawsonCoast == <<-65728400, 86312000>>

\* On the equator, at the longitude where on June 15, 2024 the sunrise falls
\* on midnight UTC.  The floats of the code compute t_rise - lngHour =
\* -8.9e-16 at longitude 89.21832551683832; the six decimals kept here put
\* it in the last unit below zero at longitudes 89.218425 to 89.218439.
NinetyEastRidge == <<0, 89218430>>

BeyondPole == <<95000000, 0>>

BeyondDateLine == <<0, 200000000>>

Sites ==
    {Bogota, Tokyo, GulfOfGuinea, Tiksi, Taymyr, ArcticOcean, Syowa, KempLand,
     MawsonCoast, NinetyEastRidge, BeyondPole, BeyondDateLine}

ValidCoordinate(latitude, longitude) ==
    /\ -90 * Scale <= latitude /\ latitude <= 90 * Scale
    /\ -180 * Scale <= longitude /\ longitude <= 180 * Scale

\* tf.timezone_at(lat=, lng=): the zone whose boundary contains the point,
\* None where the data has no zone (open sea); the library rejects a point
\* that is not on the globe with a ValueError.
timezone_at(latitude, longitude) ==
    LET at == <<latitude, longitude>>
    IN  IF ~ValidCoordinate(latitude, longitude)
          THEN [exc |-> "ValueError", value |-> None]
        ELSE IF at = Bogota THEN [exc |-> "", value |-> Some("America/Bogota")]
        ELSE IF at = Tokyo THEN [exc |-> "", value |-> Some("Asia/Tokyo")]
        ELSE IF at = Tiksi THEN [exc |-> "", value |-> Some("Asia/Yakutsk")]
        ELSE IF at = Taymyr THEN [exc |-> "", value |-> Some("Asia/Krasnoyarsk")]
        ELSE IF at = Syowa THEN [exc |-> "", value |-> Some("Antarctica/Syowa")]
        ELSE IF at = KempLand THEN [exc |-> "", value |-> Some("Antarctica/Mawson")]
        ELSE IF at = MawsonCoast
          THEN [exc |-> "", value |-> Some("Antarctica/Mawson")]
        ELSE [exc |-> "", value |-> None]

\* get_timezone as it would be without the fallback of its return
\* statement: the None of the lookup reaches pytz.timezone, which rejects it.
get_timezone_without_fallback(latitude, longitude) ==
    LET found == timezone_at(latitude, longitude)
    IN  IF found.exc # "" THEN [exc |-> found.exc, value |-> ""]
        ELSE IF found.value = None
          THEN [exc |-> "UnknownTimeZoneError", value |-> ""]
        ELSE [exc |-> "", value |-> found.value[1]]

\* get_timezone(latitude, longitude)
get_timezone(latitude, longitude) ==
    LET found == timezone_at(latitude, longitude)
    IN  IF found.exc # "" THEN [exc |-> found.exc, value |-> ""]
        ELSE IF found.value = None THEN [exc |-> "", value |-> "UTC"]
        ELSE [exc |-> "", value |-> found.value[1]]

\* pytz.timezone(name), as the zone's offset from UTC in minutes (the zones
\* of the modelled places keep one offset all year).
UtcOffset(tz) ==
    IF tz = "America/Bogota" THEN -300
    ELSE IF tz = "Asia/Tokyo" THEN 540
    ELSE IF tz = "Asia/Yakutsk" THEN 540
    ELSE IF tz = "Asia/Krasnoyarsk" THEN 420
    ELSE IF tz = "Antarctica/Syowa" THEN 180
    ELSE IF tz = "Antarctica/Mawson" THEN 300
    ELSE 0

\* ------------------------------------------------------- aware datetimes

MinutesPerDay == 1440

\* datetime.datetime.combine(date, datetime.time(hour, minute), tzinfo=UTC)
Combine(date, hour, minute) == [day |-> date, min |-> hour * 60 + minute, tz |-> "UTC"]

\* The calendar day of dt on the wall clock of zone tz.
LocalDay(dt, tz) == dt.day + (dt.min + UtcOffset(tz)) \div MinutesPerDay

\* The minute of the day of dt on the wall clock of its zone.
LocalMinute(dt) == (dt.min + UtcOffset(dt.tz)) % MinutesPerDay

\* dt.astimezone(tz) leaves the calendar (OverflowError).
AsTimezoneOverflows(dt, tz) ==
    LocalDay(dt, tz) < MinOrdinal \/ LocalDay(dt, tz) > MaxOrdinal

\* dt.astimezone(tz): the same instant, expressed in tz.
AsTimezone(dt, tz) == [dt EXCEPT !.tz = tz]

\* dt + datetime.timedelta(days=k)
PlusDays(dt, k) == [dt EXCEPT !.day = dt.day + k]

\* a < b on aware datetimes: by instant.
Before(a, b) == a.day < b.day \/ (a.day = b.day /\ a.min < b.min)

\* (b - a) in minutes.
MinutesBetween(a, b) == (b.day - a.day) * MinutesPerDay + (b.min - a.min)

\* (b - a).total_seconds()
TotalSeconds(a, b) == MinutesBetween(a, b) * 60

\* --------------------------------------------------- the sunrise equation

\* n1 - (n2 * n3) + day - 30 of a (year, month, day).
JulianDayOf(year, month, day) ==
    (275 * month) \div 9
      - ((month + 9) \div 12) * (1 + (year - 4 * (year \div 4) + 2) \div 3)
      + day - 30

\* The day-of-year value n of a date.
JulianDay(date) == JulianDayOf(YearOf(date), MonthOf(date), DayOf(date))

\* longitude / 15
LngHour(longitude) == longitude \div 15

\* The hour-angle cosine of an event.
HourAngleCos(latitude, sin_dec, cos_dec) ==
    Div(SinDeg(-830000) - Mul(SinDeg(latitude), sin_dec),
        Mul(CosDeg(latitude), cos_dec))

\* The declination, from its sine, and with it the hour-angle cosine.
EventOfDeclination(latitude, t, ra, sin_dec) ==
    [t |-> t, ra |-> ra,
     cos_h |-> HourAngleCos(latitude, sin_dec, CosDeg(AsinDeg(sin_dec)))]

\* The right ascension moved into the quadrant of l, in hours.
Quadrant(l, ra) ==
    (ra + ((l \div (90 * Scale)) * 90 * Scale
            - (ra \div (90 * Scale)) * 90 * Scale)) \div 15

\* The right ascension of the Sun at true longitude l.
RightAscension(l) == Quadrant(l, AtanDeg(Mul(917640, TanDeg(l))))

\* From the true longitude l on.
EventOfLongitude(latitude, t, l) ==
    EventOfDeclination(latitude, t, RightAscension(l), Mul(397820, SinDeg(l)))

\* The Sun's true longitude from its mean anomaly m, within [0, 360).
TrueLongitude(m) ==
    (m + Mul(1916000, SinDeg(m)) + Mul(20000, SinDeg(2 * m)) + 282634000)
      % (360 * Scale)

\* From the approximate time t on.
EventAt(latitude, t) ==
    EventOfLongitude(latitude, t, TrueLongitude(Mul(985600, t) - 3289000))

\* The chain from the approximate time to the hour-angle cosine of one
\* event (eventHour is 6 for the rise, 18 for the set).
SolarEvent(latitude, longitude, n, eventHour) ==
    EventAt(latitude, n * Scale + (eventHour * Scale - LngHour(longitude)) \div 24)

\* The test on the two cosines as it would be if it asked for both to be
\* out of range.
NoCrossingOfBoth(cos_h_rise, cos_h_set) ==
    \/ cos_h_rise > Scale /\ cos_h_set > Scale
    \/ cos_h_rise < -Scale /\ cos_h_set < -Scale

\* The Sun never rises or never sets: the test on the two cosines.
NoCrossing(cos_h_rise, cos_h_set) ==
    \/ cos_h_rise > Scale \/ cos_h_set > Scale
    \/ cos_h_rise < -Scale \/ cos_h_set < -Scale

\* x % 24 on floats.  For a negative x the float % adds 24 to the remainder,
\* and the sum is rounded: for the floats just below zero it is 24.0 itself.
\* Of the values kept here the last one below zero stands for them.
Mod24(x) == IF x = -1 THEN 24 * Scale ELSE x % (24 * Scale)

\* The UTC time of an event in hours, from its hour angle h.
UtcHours(h, ev, longitude) ==
    Mod24(h + ev.ra - Mul(65710, ev.t) - 6622000 - LngHour(longitude))

\* int(utc)
HourPart(utc) == utc \div Scale

\* int((utc % 1) * 60)
MinutePart(utc) == ((utc % Scale) * 60) \div Scale

\* datetime.time(hour, minute) accepts the pair.
ValidTime(hour, minute) == hour \in 0..23 /\ minute \in 0..59

\* The conversion to local time as it would be without the day-rollover
\* correction.
RolloverOmitted(sunrise_time_utc, sunset_time_utc, local_tz) ==
    [exc |-> "", sunrise |-> Some(AsTimezone(sunrise_time_utc, local_tz)),
     sunset |-> Some(AsTimezone(sunset_time_utc, local_tz)), branch |-> "none"]

\* The day-rollover correction as it would be if it tried the sunrise of
\* the previous day first.
RolloverBackFirst(sunrise_time_utc, sunset_time_utc, local_tz) ==
    IF Before(AsTimezone(sunset_time_utc, local_tz),
              AsTimezone(sunrise_time_utc, local_tz))
    THEN [exc |-> "",
          sunrise |-> Some(AsTimezone(PlusDays(sunrise_time_utc, -1), local_tz)),
          sunset |-> Some(AsTimezone(sunset_time_utc, local_tz)),
          branch |-> "prev"]
    ELSE [exc |-> "", sunrise |-> Some(AsTimezone(sunrise_time_utc, local_tz)),
          sunset |-> Some(AsTimezone(sunset_time_utc, local_tz)),
          branch |-> "none"]

\* The day-rollover correction of a local (sunrise, sunset) pair.
Rollover(sunrise_time_utc, sunset_time_utc, local_tz) ==
    LET sunrise_time_local == AsTimezone(sunrise_time_utc, local_tz)
        sunset_time_local == AsTimezone(sunset_time_utc, local_tz)
        sunset_time_utc_next == PlusDays(sunset_time_utc, 1)
        sunset_time_local_next == AsTimezone(sunset_time_utc_next, local_tz)
        sunrise_time_utc_prev == PlusDays(sunrise_time_utc, -1)
        sunrise_time_local_prev == AsTimezone(sunrise_time_utc_prev, local_tz)
    IN  IF Before(sunset_time_local, sunrise_time_local)
        THEN IF \/ sunset_time_utc_next.day > MaxOrdinal
                \/ AsTimezoneOverflows(sunset_time_utc_next, local_tz)
             THEN [exc |-> "OverflowError", sunrise |-> None, sunset |-> None,
                   branch |-> "next"]
             ELSE IF TotalSeconds(sunrise_time_local, sunset_time_local_next)
                       < 24 * 3600
             THEN [exc |-> "", sunrise |-> Some(sunrise_time_local),
                   sunset |-> Some(sunset_time_local_next), branch |-> "next"]
             ELSE IF \/ sunrise_time_utc_prev.day < MinOrdinal
                     \/ AsTimezoneOverflows(sunrise_time_utc_prev, local_tz)
             THEN [exc |-> "OverflowError", sunrise |-> None, sunset |-> None,
                   branch |-> "prev"]
             ELSE IF TotalSeconds(sunrise_time_local_prev, sunset_time_local)
                       < 24 * 3600
             THEN [exc |-> "", sunrise |-> Some(sunrise_time_local_prev),
                   sunset |-> Some(sunset_time_local), branch |-> "prev"]
             ELSE [exc |-> "", sunrise |-> Some(sunrise_time_local),
                   sunset |-> Some(sunset_time_local), branch |-> "kept"]
        ELSE [exc |-> "", sunrise |-> Some(sunrise_time_local),
              sunset |-> Some(sunset_time_local), branch |-> "none"]

\* What a call of calculate_sunrise_sunset that ended before the rollover
\* correction carries: the exception ("" for a return of (None, None)), the
\* timezone lookups and the runs of the trigonometric chain it made; the
\* day number n, the two hour-angle cosines and the hours and minutes of
\* the two events are added by the steps that computed them.
Ended(exc_name, lookups, trig) ==
    [exc |-> exc_name, sunrise |-> None, sunset |-> None, lookups |-> lookups,
     trig |-> trig, branch |-> "none", n |-> None, cos_h |-> None,
     times |-> None]

\* The conversion to local time and the rollover correction of the two UTC
\* datetimes.
LocalTimes(sunrise_time_utc, sunset_time_utc, local_tz, lookups) ==
    IF \/ AsTimezoneOverflows(sunrise_time_utc, local_tz)
       \/ AsTimezoneOverflows(sunset_time_utc, local_tz)
    THEN Ended("OverflowError", lookups, 1)
    ELSE [lookups |-> lookups, trig |-> 1]
           @@ Rollover(sunrise_time_utc, sunset_time_utc, local_tz)

\* The UTC datetimes of the two events, from their UTC hours.
UtcTimes(date, utc_rise, utc_set, local_tz, lookups) ==
    [times |-> Some([sunrise_hour |-> HourPart(utc_rise),
                     sunrise_minute |-> MinutePart(utc_rise),
                     sunset_hour |-> HourPart(utc_set),
                     sunset_minute |-> MinutePart(utc_set)])]
    @@ (IF \/ ~ValidTime(HourPart(utc_rise), MinutePart(utc_rise))
           \/ ~ValidTime(HourPart(utc_set), MinutePart(utc_set))
        THEN Ended("ValueError", lookups, 1)
        ELSE LocalTimes(Combine(date, HourPart(utc_rise), MinutePart(utc_rise)),
                        Combine(date, HourPart(utc_set), MinutePart(utc_set)),
                        local_tz, lookups))

\* The test on the two cosines, then the hour angles and the UTC hours.
HourAngles(longitude, date, rise, set, local_tz, lookups) ==
    [cos_h |-> Some([rise |-> rise.cos_h, set |-> set.cos_h])]
    @@ (IF NoCrossing(rise.cos_h, set.cos_h)
        THEN Ended("", lookups, 1)
        ELSE UtcTimes(date,
                      UtcHours((360 * Scale - AcosDeg(rise.cos_h)) \div 15,
                               rise, longitude),
                      UtcHours(AcosDeg(set.cos_h) \div 15, set, longitude),
                      local_tz, lookups))

\* The calculation for a date, once the timezone is settled.
SunriseSunsetOn(latitude, longitude, date, zone, lookups) ==
    IF zone.exc # ""
    THEN Ended(zone.exc, lookups, 0)
    ELSE [n |-> Some(JulianDay(date))]
         @@ HourAngles(longitude, date,
                       SolarEvent(latitude, longitude, JulianDay(date), 6),
                       SolarEvent(latitude, longitude, JulianDay(date), 18),
                       zone.value, lookups)

\* calculate_sunrise_sunset(latitude, longitude, date=None, local_tz=None).
\* date and local_tz are optional values.  The result carries, besides the
\* returned (sunrise, sunset) pair, the exception that ended the call ("" for
\* none), the number of timezone lookups and of runs of the trigonometric
\* chain the call made, the branch of the rollover correction it took, and
\* the locals n, (cos_h_rise, cos_h_set) and (sunrise_hour, sunrise_minute,
\* sunset_hour, sunset_minute) where the call got to them.
calculate_sunrise_sunset(latitude, longitude, date_opt, local_tz_opt) ==
    SunriseSunsetOn(latitude, longitude,
                    IF date_opt = None THEN Today ELSE date_opt[1],
                    IF local_tz_opt = None THEN get_timezone(latitude, longitude)
                    ELSE [exc |-> "", value |-> local_tz_opt[1]],
                    IF local_tz_opt = None THEN 1 ELSE 0)

\* calculate_daylight_hours(sunrise, sunset): hours, as a float.
calculate_daylight_hours(sunrise, sunset) ==
    IF sunrise = None /\ sunset = None THEN None
    ELSE IF sunrise = None \/ sunset = None THEN None
    ELSE Some((TotalSeconds(sunrise[1], sunset[1]) * 2500) \div 9)

\* is_polar_day as it would be with the northern summer starting in July.
is_polar_day_from_july(latitude, date) ==
    IF latitude > 0 /\ MonthOf(date) >= 7 /\ MonthOf(date) <= 8 THEN TRUE
    ELSE IF latitude < 0 /\ (MonthOf(date) >= 11 \/ MonthOf(date) <= 2) THEN TRUE
    ELSE FALSE

\* is_polar_day(latitude, date)
is_polar_day(latitude, date) ==
    IF latitude > 0 /\ MonthOf(date) >= 4 /\ MonthOf(date) <= 8 THEN TRUE
    ELSE IF latitude < 0 /\ (MonthOf(date) >= 11 \/ MonthOf(date) <= 2) THEN TRUE
    ELSE FALSE

\* is_polar_night as it would be with the northern night starting in
\* September.
is_polar_night_from_september(latitude, date) ==
    IF latitude > 0 /\ (MonthOf(date) >= 9 \/ MonthOf(date) <= 2) THEN TRUE
    ELSE IF latitude < 0 /\ MonthOf(date) >= 5 /\ MonthOf(date) <= 8 THEN TRUE
    ELSE FALSE

\* is_polar_night(latitude, date)
is_polar_night(latitude, date) ==
    IF latitude > 0 /\ (MonthOf(date) >= 11 \/ MonthOf(date) <= 2) THEN TRUE
    ELSE IF latitude < 0 /\ MonthOf(date) >= 5 /\ MonthOf(date) <= 8 THEN TRUE
    ELSE FALSE

\* round(x, 2)
Round2(x) == ((x + 5000) \div 10000) * 10000

\* The rendering of an event: strftime("%H:%M") is <<hour, minute>> of the
\* local wall clock, isoformat() adds the local date and the offset.
FormatTime(dt_opt, format_times_simple) ==
    IF dt_opt = None THEN None
    ELSE LET dt == dt_opt[1]
         IN  IF format_times_simple
             THEN Some(<<LocalMinute(dt) \div 60, LocalMinute(dt) % 60>>)
             ELSE Some(<<IsoDate(LocalDay(dt, dt.tz)), LocalMinute(dt) \div 60,
                         LocalMinute(dt) % 60, UtcOffset(dt.tz)>>)

\* The per-day call as it would be without its local_tz argument.
LoopLocalTzOmitted(local_tz) == None

\* The local_tz argument the range driver gives each per-day call.
LoopLocalTz(local_tz) == Some(local_tz)

\* The polar classification and the daylight hours of one day of the range,
\* from the pair the per-day call returned.
Classify(latitude, current_date, sunrise, sunset) ==
    IF sunrise = None /\ sunset = None
    THEN IF is_polar_day(latitude, current_date)
         THEN [polar_day |-> TRUE, polar_night |-> FALSE,
               daylight_hours |-> Some(24 * Scale)]
         ELSE [polar_day |-> FALSE, polar_night |-> TRUE,
               daylight_hours |-> Some(0)]
    ELSE [polar_day |-> FALSE, polar_night |-> FALSE,
          daylight_hours |-> calculate_daylight_hours(sunrise, sunset)]

\* The day_data entry of one day.
DayData(latitude, current_date, sunrise, sunset, format_times_simple) ==
    LET c == Classify(latitude, current_date, sunrise, sunset)
    IN  [date |-> IsoDate(current_date),
         sunrise |-> FormatTime(sunrise, format_times_simple),
         sunset |-> FormatTime(sunset, format_times_simple),
         daylightHours |-> IF c.daylight_hours # None
                           THEN Some(Round2(c.daylight_hours[1])) ELSE None,
         polarDay |-> c.polar_day,
         polarNight |-> c.polar_night]

\* ------------------------------------------------------------- the calls

VARIABLES
    op,                   \* the entry point called: "range", "day" or "season"
    pc,                   \* "call", "loop", "returned" or "raised"
    latitude,             \* arguments of the call
    longitude,
    start_date,           \* range: start_date; day and season: the date
    end_date,
    format_times_simple,
    date_arg,             \* day: the optional date argument
    local_tz_arg,         \* day: the optional local_tz argument
    timezone_str,         \* range: locals of the driver
    local_tz,
    current_date,
    results,
    day_ret,              \* day: the returned (sunrise, sunset)
    season_ret,           \* season: the two predicates' values
    exc,                  \* the exception that ended the call, "" for none
    tzLookups,            \* calls of tf.timezone_at made so far
    trigCalls,            \* runs of the trigonometric chain made so far
    calls                 \* what each per-day call computed, in order

vars ==
    <<op, pc, latitude, longitude, start_date, end_date, format_times_simple,
      date_arg, local_tz_arg, timezone_str, local_tz, current_date, results,
      day_ret, season_ret, exc, tzLookups, trigCalls, calls>>

\* What is kept of a per-day call: how it ended, the pair it returned, the
\* branch of the rollover correction it took, and its locals n,
\* (cos_h_rise, cos_h_set) and (sunrise_hour, sunrise_minute, sunset_hour,
\* sunset_minute).
CallRecord(r) ==
    [exc |-> r.exc, sunrise |-> r.sunrise, sunset |-> r.sunset,
     branch |-> r.branch, n |-> r.n, cos_h |-> r.cos_h, times |-> r.times]

\* First dates of the modelled ranges: around the leap day, in the northern
\* summer, across a month's end, at the December solstice, across the year's
\* end, and at the end of the calendar.
RangeDates ==
    {ToOrdinal(2024, 2, 28), ToOrdinal(2024, 6, 15), ToOrdinal(2024, 9, 30),
     ToOrdinal(2024, 12, 21), ToOrdinal(2024, 12, 30), ToOrdinal(9999, 12, 30)}

\* Dates of the seasonal predicates' calls: one in each month.
SeasonDates == {ToOrdinal(2024, m, 15) : m \in 1..12}

\* Dates of the direct per-day calls.
DayDates ==
    {ToOrdinal(2024, 3, 1), ToOrdinal(2024, 6, 15), ToOrdinal(2024, 12, 21),
     ToOrdinal(2100, 3, 1), MaxOrdinal}

NoResults ==
    [coordinates |-> [lat |-> 0, lon |-> 0], timezone |-> "",
     dateRange |-> [start |-> <<0, 0, 0>>, end |-> <<0, 0, 0>>, days |-> 0],
     data |-> <<>>]

NoDay == [sunrise |-> None, sunset |-> None]

NoSeason == [polar_day |-> FALSE, polar_night |-> FALSE]

Locals ==
    /\ pc = "call"
    /\ timezone_str = ""
    /\ local_tz = ""
    /\ results = NoResults
    /\ day_ret = NoDay
    /\ season_ret = NoSeason
    /\ exc = ""
    /\ tzLookups = 0
    /\ trigCalls = 0
    /\ calls = <<>>

InitRange ==
    /\ op = "range"
    /\ \E site \in Sites : latitude = site[1] /\ longitude = site[2]
    /\ start_date \in RangeDates
    /\ end_date \in {d \in (start_date - MaxBack)..(start_date + MaxSpan) :
                        d <= MaxOrdinal}
    /\ format_times_simple \in BOOLEAN
    /\ date_arg = None
    /\ local_tz_arg = None
    /\ current_date = start_date
    /\ Locals

InitDay ==
    /\ op = "day"
    /\ \E site \in Sites : latitude = site[1] /\ longitude = site[2]
    /\ start_date \in DayDates
    /\ end_date = start_date
    /\ format_times_simple = TRUE
    /\ date_arg \in {None, Some(start_date)}
    /\ local_tz_arg \in {None, Some("UTC"), Some("Asia/Tokyo")}
    /\ current_date = start_date
    /\ Locals

InitSeason ==
    /\ op = "season"
    /\ \E site \in Sites : latitude = site[1] /\ longitude = site[2]
    /\ start_date \in SeasonDates
    /\ end_date = start_date
    /\ format_times_simple = TRUE
    /\ date_arg = None
    /\ local_tz_arg = None
    /\ current_date = start_date
    /\ Locals

Init == InitRange \/ InitDay \/ InitSeason

\* get_sun_data_for_date_range, up to the loop: the timezone lookup, the
\* day count and the initial results.
RangeEnter ==
    /\ op = "range" /\ pc = "call"
    /\ \E zone \in {get_timezone(latitude, longitude)} :
           /\ tzLookups' = tzLookups + 1
           /\ IF zone.exc # ""
              THEN /\ pc' = "raised"
                   /\ exc' = zone.exc
                   /\ UNCHANGED <<timezone_str, local_tz, results>>
              ELSE /\ pc' = "loop"
                   /\ exc' = ""
                   /\ timezone_str' = zone.value
                   /\ local_tz' = zone.value
                   /\ results' =
                        [coordinates |-> [lat |-> latitude, lon |-> longitude],
                         timezone |-> zone.value,
                         dateRange |-> [start |-> IsoDate(start_date),
                                        end |-> IsoDate(end_date),
                                        days |-> (end_date - start_date) + 1],
                         data |-> <<>>]
    /\ current_date' = start_date
    /\ UNCHANGED <<op, latitude, longitude, start_date, end_date,
                   format_times_simple, date_arg, local_tz_arg, day_ret,
                   season_ret, trigCalls, calls>>

\* One turn of the loop: the per-day call, the classification, the entry
\* appended, the date advanced.
RangeDay ==
    /\ op = "range" /\ pc = "loop"
    /\ current_date <= end_date
    /\ \E r \in {calculate_sunrise_sunset(latitude, longitude,
                                         Some(current_date), LoopLocalTz(local_tz))} :
           /\ tzLookups' = tzLookups + r.lookups
           /\ trigCalls' = trigCalls + r.trig
           /\ calls' = Append(calls, CallRecord(r))
           /\ IF r.exc # ""
              THEN /\ pc' = "raised"
                   /\ exc' = r.exc
                   /\ UNCHANGED <<results, current_date>>
              ELSE /\ results' =
                        [results EXCEPT !.data =
                            Append(@, DayData(latitude, current_date, r.sunrise,
                                              r.sunset, format_times_simple))]
                   /\ IF current_date + 1 > MaxOrdinal
                      THEN /\ pc' = "raised"
                           /\ exc' = "OverflowError"
                           /\ UNCHANGED current_date
                      ELSE /\ pc' = "loop"
                           /\ exc' = ""
                           /\ current_date' = current_date + 1
    /\ UNCHANGED <<op, latitude, longitude, start_date, end_date,
                   format_times_simple, date_arg, local_tz_arg, timezone_str,
                   local_tz, day_ret, season_ret>>

\* The loop ends and the results are returned.
RangeReturn ==
    /\ op = "range" /\ pc = "loop"
    /\ ~(current_date <= end_date)
    /\ pc' = "returned"
    /\ UNCHANGED <<op, latitude, longitude, start_date, end_date,
                   format_times_simple, date_arg, local_tz_arg, timezone_str,
                   local_tz, current_date, results, day_ret, season_ret, exc,
                   tzLookups, trigCalls, calls>>

\* A direct call of calculate_sunrise_sunset.
DayCall ==
    /\ op = "day" /\ pc = "call"
    /\ \E r \in {calculate_sunrise_sunset(latitude, longitude, date_arg,
                                         local_tz_arg)} :
           /\ tzLookups' = tzLookups + r.lookups
           /\ trigCalls' = trigCalls + r.trig
           /\ exc' = r.exc
           /\ pc' = IF r.exc # "" THEN "raised" ELSE "returned"
           /\ day_ret' = [sunrise |-> r.sunrise, sunset |-> r.sunset]
           /\ calls' = Append(calls, CallRecord(r))
    /\ UNCHANGED <<op, latitude, longitude, start_date, end_date,
                   format_times_simple, date_arg, local_tz_arg, timezone_str,
                   local_tz, current_date, results, season_ret>>

\* A call of is_polar_day and of is_polar_night for one latitude and date.
SeasonCall ==
    /\ op = "season" /\ pc = "call"
    /\ season_ret' = [polar_day |-> is_polar_day(latitude, start_date),
                      polar_night |-> is_polar_night(latitude, start_date)]
    /\ pc' = "returned"
    /\ UNCHANGED <<op, latitude, longitude, start_date, end_date,
                   format_times_simple, date_arg, local_tz_arg, timezone_str,
                   local_tz, current_date, results, day_ret, exc, tzLookups,
                   trigCalls, calls>>

Next == RangeEnter \/ RangeDay \/ RangeReturn \/ DayCall \/ SeasonCall

Spec == Init /\ [][Next]_vars

\* ------------------------------------------------------------ the claims

\* The entries of the range's data, by position.
Entries == DOMAIN results.data

\* A range request that has returned its results.
RangeReturned == op = "range" /\ pc = "returned"

\* The lookup of the request's coordinates finds no region.
NoRegion == timezone_at(latitude, longitude) = [exc |-> "", value |-> None]

\* The month of an entry's date.
EntryMonth(e) == e.date[2]

\* C1: the data of a returned range has (endDate - startDate in days) + 1
\* entries, as many as dateRange.days reports; its first entry is dated
\* startDate and each later entry one calendar day after the one before it.
C1_RangeLengthAndDates ==
    RangeReturned =>
        /\ Len(results.data) = (end_date - start_date) + 1
        /\ results.dateRange.days = Len(results.data)
        /\ \A i \in Entries : results.data[i].date = IsoDate(start_date + i - 1)

\* C2: a range request whose endDate is earlier than its startDate ends with
\* the InvalidRange condition, never with a return, and computes no day.
C2_InvalidRange ==
    (op = "range" /\ end_date < start_date
       /\ ValidCoordinate(latitude, longitude))
    => /\ pc # "returned"
       /\ pc = "raised" => exc = "InvalidRange"
       /\ trigCalls = 0
       /\ results.data = <<>>

\* C3: a range request queries the timezone resolver once, before the loop,
\* and no per-day call of the loop adds a lookup of its own.
C3_OneLookup ==
    op = "range" => tzLookups = (IF pc = "call" THEN 0 ELSE 1)

\* C3: a range of at least two days has been computed with a single lookup.
C3_Witness ==
    op = "range" /\ Len(results.data) >= 2 /\ tzLookups = 1

\* C4: where the lookup finds no region, get_timezone returns "UTC"; the
\* range request takes "UTC" as its timezone, does not end in the lookup
\* (whatever ends it comes after a per-day calculation), and returns one
\* entry for every day of the range.
C4_UtcFallback ==
    (op = "range" /\ NoRegion)
    => /\ get_timezone(latitude, longitude) = [exc |-> "", value |-> "UTC"]
       /\ pc # "call" => timezone_str = "UTC" /\ results.timezone = "UTC"
       /\ pc = "raised" => trigCalls >= 1
       /\ (pc = "returned" /\ start_date <= end_date)
            => Len(results.data) = (end_date - start_date) + 1

\* C4: a range over a place without a region has returned its days in UTC.
C4_Witness ==
    /\ RangeReturned /\ NoRegion
    /\ timezone_str = "UTC"
    /\ Len(results.data) >= 2

\* The hours, rounded as the entry's are, between the instants a per-day
\* call returned.
IntervalHours(c) ==
    Round2((TotalSeconds(c.sunrise[1], c.sunset[1]) * 2500) \div 9)

\* C5: in every entry of a range, daylightHours is 24.0 exactly when
\* polarDay is set, 0.0 exactly when polarNight is set, and otherwise the
\* hours from the returned sunrise to the returned sunset.
C5_DaylightHoursByCase ==
    op = "range" =>
        \A i \in Entries :
            /\ (results.data[i].daylightHours = Some(24 * Scale))
                 <=> results.data[i].polarDay
            /\ (results.data[i].daylightHours = Some(0))
                 <=> results.data[i].polarNight
            /\ (~results.data[i].polarDay /\ ~results.data[i].polarNight)
                 => /\ calls[i].sunrise # None /\ calls[i].sunset # None
                    /\ results.data[i].daylightHours
                         = Some(IntervalHours(calls[i]))

\* A call of the two seasonal predicates has returned, for a latitude other
\* than zero.
SeasonReturned == op = "season" /\ pc = "returned" /\ latitude # 0

\* The months in which one of the seasonal predicates holds at the latitude.
SeasonMonths(lat) ==
    IF lat > 0 THEN {4, 5, 6, 7, 8, 11, 12, 1, 2}
    ELSE {11, 12, 1, 2, 5, 6, 7, 8}

\* C6, as stated: for a nonzero latitude exactly one of is_polar_day and
\* is_polar_night is true, in every month.
C6_ExactlyOne ==
    SeasonReturned => (season_ret.polar_day # season_ret.polar_night)

\* C6, amended: for a nonzero latitude is_polar_day and is_polar_night are
\* never both true; exactly one of them is true in the months 4-8, 11, 12, 1
\* and 2 in the north and 5-8, 11, 12, 1 and 2 in the south, and neither is
\* true in the other months (3, 9, 10 in the north; 3, 4, 9, 10 in the
\* south).
C6_AtMostOne ==
    SeasonReturned =>
        /\ ~(season_ret.polar_day /\ season_ret.polar_night)
        /\ (season_ret.polar_day \/ season_ret.polar_night)
             <=> MonthOf(start_date) \in SeasonMonths(latitude)

\* C6: the two predicates have been called for a northern latitude in
\* September, and neither holds.
C6_Witness ==
    /\ SeasonReturned /\ latitude > 0 /\ MonthOf(start_date) = 9
    /\ ~season_ret.polar_day /\ ~season_ret.polar_night

\* The months of the polar night at the latitude, as is_polar_night is
\* documented.
PolarNightSeason(lat, month) ==
    \/ lat > 0 /\ month \in {11, 12, 1, 2}
    \/ lat < 0 /\ month \in 5..8

\* C7: in every entry of a day without a horizon crossing, polarNight is set
\* exactly in the months of the polar night at the latitude; at latitude 0
\* neither polarDay nor polarNight is set.
C7_PolarNightMonths ==
    op = "range" =>
        \A i \in Entries :
            /\ (calls[i].sunrise = None /\ calls[i].sunset = None)
                 => (results.data[i].polarNight
                       <=> PolarNightSeason(latitude,
                                            EntryMonth(results.data[i])))
            /\ latitude = 0
                 => ~results.data[i].polarDay /\ ~results.data[i].polarNight

\* C8: a range or per-day request for coordinates outside [-90, 90] x
\* [-180, 180] ends with an error before any run of the trigonometric chain
\* and before any per-day result: it never returns.
C8_InvalidCoordinate ==
    (op \in {"range", "day"} /\ ~ValidCoordinate(latitude, longitude))
    => /\ trigCalls = 0
       /\ pc # "returned"
       /\ results.data = <<>>
       /\ day_ret = NoDay

\* C10: in every entry of a range the daylightHours present lie between 0
\* and 24, and where the per-day call returned both events the sunset is not
\* earlier than the sunrise and at most 24 hours after it.
C10_DaylightHoursRange ==
    op = "range" =>
        \A i \in Entries :
            /\ results.data[i].daylightHours # None
                 => /\ 0 <= results.data[i].daylightHours[1]
                    /\ results.data[i].daylightHours[1] <= 24 * Scale
            /\ (calls[i].sunrise # None /\ calls[i].sunset # None)
                 => /\ ~Before(calls[i].sunset[1], calls[i].sunrise[1])
                    /\ MinutesBetween(calls[i].sunrise[1], calls[i].sunset[1])
                         <= MinutesPerDay

\* C10: an entry has been made of a day whose sunset the rollover correction
\* moved to the next day.
C10_Witness ==
    /\ op = "range"
    /\ \E i \in Entries :
          /\ calls[i].branch = "next"
          /\ results.data[i].daylightHours # None
          /\ results.data[i].daylightHours[1] > 0

\* Longitudes around the 75th parallel, in degrees.
Longitudes75 == {-180, -135, -90, -45, 0, 45, 90, 100, 135, 180}

\* The entry the range driver makes of June 15, 2024 at latitude 75 and the
\* longitude given, from what the per-day call returns there (in UTC).
June15At75(lon) ==
    LET r == calculate_sunrise_sunset(75 * Scale, lon * Scale,
                                      Some(ToOrdinal(2024, 6, 15)), Some("UTC"))
    IN  DayData(75 * Scale, ToOrdinal(2024, 6, 15), r.sunrise, r.sunset, TRUE)

\* The entry of a polar day.
IsPolarDayEntry(e) ==
    /\ e.polarDay /\ ~e.polarNight
    /\ e.daylightHours = Some(24 * Scale)
    /\ e.sunrise = None /\ e.sunset = None

\* What the claim C11 says of every longitude of the 75th parallel.
AllJune15At75 == \A lon \in Longitudes75 : IsPolarDayEntry(June15At75(lon))

\* C11: at latitude 75, whatever the longitude, the entry of June 15 has
\* polarDay set, polarNight clear, daylightHours 24.0 and neither sunrise
\* nor sunset.
C11_PolarDayAt75 ==
    latitude = 75 * Scale =>
        /\ AllJune15At75
        /\ op = "range"
             => \A i \in Entries :
                   (results.data[i].date[2] = 6 /\ results.data[i].date[3] = 15)
                     => IsPolarDayEntry(results.data[i])

\* C11: a range at latitude 75 has made its entry of June 15.
C11_Witness ==
    /\ op = "range" /\ latitude = 75 * Scale
    /\ \E i \in Entries :
          /\ results.data[i].date = <<2024, 6, 15>>
          /\ results.data[i].polarDay

\* C12: a range request with startDate <= endDate, endDate = the last date
\* of the calendar included, does not end in an error; it returns after one
\* per-day calculation for each date from startDate to endDate, in
\* ascending order.
C12_RangeTerminates ==
    (op = "range" /\ start_date <= end_date
       /\ ValidCoordinate(latitude, longitude))
    => /\ pc # "raised"
       /\ pc = "returned"
            => /\ trigCalls = (end_date - start_date) + 1
               /\ Len(calls) = (end_date - start_date) + 1
               /\ \A i \in Entries :
                     results.data[i].date = IsoDate(start_date + i - 1)

\* The ordinal day of the year of a date: 1 for January 1.
DayOfYear(o) == o - ToOrdinal(YearOf(o), 1, 1) + 1

\* The date the i-th per-day call of the request was made for.
CallDate(i) ==
    IF op = "range" THEN start_date + i - 1
    ELSE IF date_arg = None THEN Today ELSE date_arg[1]

\* C13: the n a per-day call computes from the floor formula is the ordinal
\* day of the year of the call's date, in leap and in non-leap years.
C13_DayOfYear ==
    \A i \in DOMAIN calls :
        calls[i].n # None => calls[i].n[1] = DayOfYear(CallDate(i))

\* C14: the hour and the minute a per-day call splits each UTC event time
\* into are a valid time of day (hour in 0..23, minute in 0..59), and
\* building the UTC instants does not fail.
C14_ValidTimeOfDay ==
    \A i \in DOMAIN calls :
        calls[i].times # None
          => /\ ValidTime(calls[i].times[1].sunrise_hour,
                          calls[i].times[1].sunrise_minute)
             /\ ValidTime(calls[i].times[1].sunset_hour,
                          calls[i].times[1].sunset_minute)
             /\ calls[i].exc # "ValueError"

\* The minute of the UTC day of the sunrise of a per-day call.
RiseMinute(c) == c.times[1].sunrise_hour * 60 + c.times[1].sunrise_minute

\* The minute of the UTC day of the sunset of a per-day call.
SetMinute(c) == c.times[1].sunset_hour * 60 + c.times[1].sunset_minute

OutOfRange(cos_h) == cos_h > Scale \/ cos_h < -Scale

\* C16: in every entry of a range sunrise is null exactly when sunset is,
\* polarDay and polarNight are not both set, and the events are null exactly
\* when one of the two flags is set; the per-day call returns neither event
\* as soon as one of its two hour-angle cosines is out of range.
C16_NullEventsIffPolar ==
    op = "range" =>
        \A i \in Entries :
            /\ results.data[i].sunrise = None <=> results.data[i].sunset = None
            /\ ~(results.data[i].polarDay /\ results.data[i].polarNight)
            /\ results.data[i].sunrise = None
                 <=> (results.data[i].polarDay \/ results.data[i].polarNight)
            /\ calls[i].sunrise = None <=> results.data[i].sunrise = None
            /\ calls[i].sunset = None <=> results.data[i].sunset = None
            /\ calls[i].cos_h # None
            /\ (OutOfRange(calls[i].cos_h[1].rise)
                  \/ OutOfRange(calls[i].cos_h[1].set))
                 <=> (calls[i].sunrise = None /\ calls[i].sunset = None)

\* C16: an entry without events has been made of a day on which only one of
\* the two cosines was out of range.
C16_Witness ==
    /\ op = "range"
    /\ \E i \in Entries :
          /\ OutOfRange(calls[i].cos_h[1].rise)
          /\ ~OutOfRange(calls[i].cos_h[1].set)
          /\ results.data[i].sunrise = None /\ results.data[i].sunset = None
          /\ results.data[i].polarDay

====
